---- MODULE Spec2Model ----
(***************************************************************************)
(* Model of grasp/routines.py (split_by_cc, clean) and of                  *)
(* phasme/graphics.py (make_graphics_coef_stacked).                        *)
(*                                                                         *)
(* A file name is the sequence of its characters; the element "{}" may     *)
(* stand for the two characters of the slot of str.format.  A file         *)
(* is a sequence of lines; a line is the fact it spells, or a line the     *)
(* parser skips.  The fact format (parser, builder, serializer) lives in   *)
(* grasp.asp / grasp.build_graph / grasp.commons, which are not part of    *)
(* the sources at hand: those definitions follow sections 4.1-4.3 of the   *)
(* specification.                                                          *)
(***************************************************************************)
EXTENDS Integers, Sequences, FiniteSets, TLC

VARIABLES
    args,                                             \* the arguments the caller passed
    pc, err, result,                                  \* control, exception raised, value returned
    fname, targets, edge_predicate,                   \* arguments
    target, target_edge_predicate,
    graph, comps, idx, pending, writtens, subs,       \* locals
    fs, fs0, opened, wopened,                         \* file system, its initial content, handles
    runs, snaps,                                      \* calls of clean completed, file after each
    normal,                                           \* what normalize_filename makes of each name
    degrees, coefs, no_zero, stacked_limits,          \* make_graphics_coef_stacked
    stacked_colors, log, outdir, x, labels, title

vars == <<args, pc, err, result, fname, targets, edge_predicate, target,
          target_edge_predicate, graph, comps, idx, pending, writtens, subs,
          fs, fs0, opened, wopened, runs, snaps, normal, degrees, coefs, no_zero,
          stacked_limits, stacked_colors, log, outdir, x, labels, title>>

callVars == <<args, fname, targets, edge_predicate, target_edge_predicate>>
fsVars == <<fs, fs0, opened, wopened>>
cleanVars == <<runs, snaps, normal>>
plotVars == <<degrees, coefs, no_zero, stacked_limits, stacked_colors, log, outdir,
              x, labels, title>>

\* ------------------------------------------------------------------ bounds
MaxLines == 3
MaxTemplateLen == 2
MaxRuns == 2
NumPlotNodes == 2
MaxExisting == 1

\* ------------------------------------------------------------- vocabulary
NodeOrder == <<"a", "b", "c">>
PredOrder == <<"node", "edge", "link">>
DefaultEdgePredicate == "edge"
NodePredicate == "node"
SkipPredicate == "%"
Slot == <<"{", "}">>
Braces == {"{", "}"}
Digits == <<"0", "1", "2", "3", "4", "5", "6", "7", "8", "9">>

Range(s) == {s[i] : i \in DOMAIN s}
Nodes == Range(NodeOrder)
EdgePredicates == {"edge", "link"}

\* position of u in s, 0 when absent
IndexOf(s, u) == IF \E i \in DOMAIN s : s[i] = u
                 THEN CHOOSE i \in DOMAIN s : s[i] = u /\ \A j \in 1..(i - 1) : s[j] # u
                 ELSE 0

Fact(p, as) == [pred |-> p, args |-> as]
SkippedLine == Fact(SkipPredicate, <<>>)

\* ------------------------------------------------ graph (networkx.Graph)
EmptyGraph == [nodes |-> <<>>, edges |-> {}, attrs |-> {}]

NodeSet(g) == Range(g.nodes)

AddNode(g, n) == IF n \in NodeSet(g) THEN g
                 ELSE [g EXCEPT !.nodes = Append(@, n)]

AddEdge(g, u, y) == [AddNode(AddNode(g, u), y) EXCEPT !.edges = @ \cup {{u, y}}]

\* the attribute store maps (entity, attribute name) to one value
SetAttr(g, kind, ent, name, val) ==
    [g EXCEPT !.attrs =
        {t \in @ : ~(t.kind = kind /\ t.ent = ent /\ t.name = name)}
        \cup {[kind |-> kind, ent |-> ent, name |-> name, val |-> val]}]

\* ----------------------------------------------------- Fact Line Parser
\* a line is either a fact or is skipped (blank, comment, malformed)
ParseLine(line) == IF line.pred = SkipPredicate THEN <<>> ELSE <<line>>

RECURSIVE ParseLines(_)
ParseLines(lines) == IF lines = <<>> THEN <<>>
                     ELSE ParseLine(Head(lines)) \o ParseLines(Tail(lines))

\* --------------------------------------------------------- Graph Builder
BuildAtom(g, atom, ep) ==
    LET n == Len(atom.args) IN
    IF atom.pred = ep /\ n = 2
        THEN AddEdge(g, atom.args[1], atom.args[2])
    ELSE IF n = 1
        THEN AddNode(g, atom.args[1])
    ELSE IF n = 2 /\ {atom.args[1], atom.args[2]} \in g.edges
        THEN SetAttr(g, "edge", {atom.args[1], atom.args[2]}, atom.pred, <<>>)
    ELSE IF n >= 2
        THEN SetAttr(AddNode(g, atom.args[1]), "node", {atom.args[1]},
                     atom.pred, Tail(atom.args))
    ELSE g

RECURSIVE BuildFrom(_, _, _)
BuildFrom(g, atoms, ep) ==
    IF atoms = <<>> THEN g
    ELSE BuildFrom(BuildAtom(g, Head(atoms), ep), Tail(atoms),
                   ep)

build_graph(lines, ep) ==
    BuildFrom(EmptyGraph, ParseLines(lines), ep)

\* ------------------------------------------------------ Graph Serializer
Rank(u) == IndexOf(NodeOrder, u)
Lo(e) == CHOOSE u \in e : \A y \in e : Rank(u) <= Rank(y)
Hi(e) == CHOOSE u \in e : \A y \in e : Rank(y) <= Rank(u)

Incident(g, n) == \E e \in g.edges : n \in e
HasAttr(g, n) == \E t \in g.attrs : t.kind = "node" /\ t.ent = {n}

NodeFacts(g) ==
    {Fact(NodePredicate, <<n>>) : n \in {m \in NodeSet(g) : ~Incident(g, m) /\ ~HasAttr(g, m)}}
EdgeFacts(g, ep) ==
    {Fact(ep, <<Lo(e), Hi(e)>>) : e \in g.edges}
AttrFact(t) == IF t.kind = "edge" THEN Fact(t.name, <<Lo(t.ent), Hi(t.ent)>>)
               ELSE Fact(t.name, <<Lo(t.ent)>> \o t.val)
AttrFacts(g) == {AttrFact(t) : t \in g.attrs}

\* lexicographic key of a fact: predicate, then the arguments
ArgKey(as, i) == IF i <= Len(as) THEN Rank(as[i]) ELSE 0
FactKey(f) == (IndexOf(PredOrder, f.pred) * 10 + ArgKey(f.args, 1)) * 10 + ArgKey(f.args, 2)

RECURSIVE Sorted(_)
Sorted(S) == IF S = {} THEN <<>>
             ELSE LET f == CHOOSE u \in S : \A y \in S : FactKey(u) <= FactKey(y)
                  IN <<f>> \o Sorted(S \ {f})

asp_from_graph(g, ep) ==
    Sorted(NodeFacts(g)) \o Sorted(EdgeFacts(g, ep)) \o Sorted(AttrFacts(g))

\* ------------------------------------------------------------ Python values
None == [kind |-> "None", val |-> <<>>]
PyStr(s) == [kind |-> "str", val |-> s]
PyList(s) == [kind |-> "list", val |-> s]
Truthy(v) == v.kind # "None" /\ v.val # <<>>

\* str(int)
RECURSIVE IntStr(_)
IntStr(n) == IF n < 10 THEN <<Digits[n + 1]>>
             ELSE IntStr(n \div 10) \o <<Digits[(n % 10) + 1]>>

\* a string as its characters: the element "{}" is the two characters of the slot
RECURSIVE Chars(_)
Chars(s) == IF s = <<>> THEN <<>>
            ELSE (IF Head(s) = "{}" THEN Slot ELSE <<Head(s)>>) \o Chars(Tail(s))

\* s.rfind(c): the last position of c in s, 0 when absent
LastIndex(s, c) == IF \E i \in DOMAIN s : s[i] = c
                   THEN CHOOSE i \in DOMAIN s : s[i] = c /\ \A j \in (i + 1)..Len(s) : s[j] # c
                   ELSE 0

\* os.path.splitext: the extension starts at the last dot of the last path
\* component, unless only dots precede it in that component
splitext(s) ==
    LET sep == LastIndex(s, "/")
        d == LastIndex(s, ".")
    IN IF d > sep /\ \E j \in (sep + 1)..(d - 1) : s[j] # "."
           THEN <<SubSeq(s, 1, d - 1), SubSeq(s, d, Len(s))>>
           ELSE <<s, <<>>>>

\* '{}' in s
HasSlot(s) == LET c == Chars(s) IN \E i \in 1..(Len(c) - 1) : c[i] = "{" /\ c[i + 1] = "}"

\* ------------------------------------------------------------- str.format
\* targets.format(idx) of line 29, for one positional argument that is a
\* non-negative int.  Outside the model, and reported as "NotModelled": the
\* attributes of int that are not numbers (its methods), a width or a
\* precision of more than three digits, and the type c outside printable
\* ASCII or for the grave accent.
Max(a, b) == IF a >= b THEN a ELSE b
Min(a, b) == IF a <= b THEN a ELSE b
Repeat(c, k) == [i \in 1..k |-> c]
RECURSIVE Join(_)
Join(s) == IF s = <<>> THEN "" ELSE Head(s) \o Join(Tail(s))

\* the first position from j on of a character of S, Len(s) + 1 when none
Find(s, j, S) == IF \E i \in j..Len(s) : s[i] \in S
                 THEN CHOOSE i \in j..Len(s) : s[i] \in S /\ \A k \in j..(i - 1) : s[k] \notin S
                 ELSE Len(s) + 1

IsDigits(s) == s # <<>> /\ \A i \in DOMAIN s : s[i] \in Range(Digits)
LeadDigits(s) == SubSeq(s, 1, Find(s, 1, Range(s) \ Range(Digits)) - 1)
RECURSIVE StripZeros(_)
StripZeros(d) == IF Len(d) > 1 /\ Head(d) = "0" THEN StripZeros(Tail(d)) ELSE d
DigitVal(c) == IndexOf(Digits, c) - 1
\* int(s) of a string of digits
RECURSIVE IntOf(_)
IntOf(s) == IF s = <<>> THEN 0
            ELSE IntOf(SubSeq(s, 1, Len(s) - 1)) * 10 + DigitVal(s[Len(s)])

\* PY_SSIZE_T_MAX, the largest number get_integer reads
SsizeMax == <<"9", "2", "2", "3", "3", "7", "2", "0", "3", "6",
              "8", "5", "4", "7", "7", "5", "8", "0", "7">>
RECURSIVE DigitsGreater(_, _)
DigitsGreater(a, b) == IF a = <<>> THEN FALSE
                       ELSE IF Head(a) # Head(b) THEN DigitVal(Head(a)) > DigitVal(Head(b))
                       ELSE DigitsGreater(Tail(a), Tail(b))
TooMany(d) == LET e == StripZeros(d)
              IN Len(e) > Len(SsizeMax) \/ (Len(e) = Len(SsizeMax) /\ DigitsGreater(e, SsizeMax))
\* get_integer fails on s: its leading digits pass PY_SSIZE_T_MAX
Overflows(s) == LeadDigits(s) # <<>> /\ TooMany(LeadDigits(s))
\* a width or precision the model does not lay out
TooWide(d) == Len(StripZeros(d)) > 3

\* the character that ends the field name read from position j on: the
\* first '}', ':' or '!' outside brackets; 0 when a '{' or the end of the
\* string comes first
RECURSIVE NameStop(_, _)
NameStop(s, j) ==
    IF j > Len(s) THEN 0
    ELSE IF s[j] = "{" THEN 0
    ELSE IF s[j] = "[" THEN (IF Find(s, j + 1, {"]"}) > Len(s) THEN 0
                             ELSE NameStop(s, Find(s, j + 1, {"]"})))
    ELSE IF s[j] \in {"}", ":", "!"} THEN j
    ELSE NameStop(s, j + 1)

\* the brace that closes the format spec entered at depth 1, looked for
\* from position j on; 0 when the string ends first
RECURSIVE FieldEnd(_, _, _)
FieldEnd(s, j, depth) ==
    IF j > Len(s) THEN 0
    ELSE IF s[j] = "{" THEN FieldEnd(s, j + 1, depth + 1)
    ELSE IF s[j] = "}" THEN (IF depth = 1 THEN j ELSE FieldEnd(s, j + 1, depth - 1))
    ELSE FieldEnd(s, j + 1, depth)

\* parse_field: the replacement field whose first character is at position
\* i and whose name stops at position e, as its name, its conversion (<<>>
\* when none), its format spec, whether the spec holds a brace, and the
\* position after the field
BadField == [ok |-> FALSE, name |-> <<>>, conv |-> <<>>, spec |-> <<>>,
             expand |-> FALSE, next |-> 0]
FieldAt(s, i, e) ==
    LET Plain(conv, nxt) == [ok |-> TRUE, name |-> SubSeq(s, i, e - 1), conv |-> conv,
                             spec |-> <<>>, expand |-> FALSE, next |-> nxt]
        WithSpec(conv, j) ==
            LET z == FieldEnd(s, j, 1)
            IN IF z = 0 THEN BadField
               ELSE [ok |-> TRUE, name |-> SubSeq(s, i, e - 1), conv |-> conv,
                     spec |-> SubSeq(s, j, z - 1),
                     expand |-> \E k \in j..(z - 1) : s[k] = "{", next |-> z + 1]
    IN IF e = 0 THEN BadField
       ELSE IF s[e] = "}" THEN Plain(<<>>, e + 1)
       ELSE IF s[e] = ":" THEN WithSpec(<<>>, e + 1)
       ELSE IF e + 1 > Len(s) THEN BadField
       ELSE IF e + 2 > Len(s) THEN BadField
       ELSE IF s[e + 2] = "}" THEN Plain(<<s[e + 1]>>, e + 3)
       ELSE IF s[e + 2] # ":" THEN BadField
       ELSE WithSpec(<<s[e + 1]>>, e + 3)
ParseField(s, i) == FieldAt(s, i, NameStop(s, i))

\* the replacement fields str.format finds in s, up to the first defect
\* (a stray or unclosed brace, a brace inside a field name): '{{' and '}}'
\* are escaped braces, not fields, and a field nested in a format spec
\* belongs to its field
RECURSIVE FieldCount(_)
FieldCount(s) ==
    IF s = <<>> THEN 0
    ELSE IF Head(s) \notin Braces THEN FieldCount(Tail(s))
    ELSE IF Len(s) = 1 THEN 0
    ELSE IF s[2] = s[1] THEN FieldCount(SubSeq(s, 3, Len(s)))
    ELSE IF s[1] = "}" THEN 0
    ELSE IF ~ParseField(s, 2).ok THEN 0
    ELSE 1 + FieldCount(SubSeq(s, ParseField(s, 2).next, Len(s)))
SlotCount(s) == FieldCount(Chars(s))

\* the attributes of an int that are methods
IntMethods == {"as_integer_ratio", "bit_count", "bit_length", "conjugate",
               "from_bytes", "to_bytes", "is_integer"}
IsDunder(a) == Len(a) > 4 /\ SubSeq(a, 1, 2) = <<"_", "_">>
                          /\ SubSeq(a, Len(a) - 1, Len(a)) = <<"_", "_">>

\* the attributes and items named after the argument, applied to the int v
RECURSIVE Walk(_, _)
Walk(rest, v) ==
    IF rest = <<>> THEN [err |-> "none", val |-> v]
    ELSE IF Head(rest) = "." THEN
        LET k == Find(rest, 2, {".", "["})
            attr == SubSeq(rest, 2, k - 1)
            after == SubSeq(rest, k, Len(rest))
        IN IF attr = <<>> THEN [err |-> "ValueError", val |-> v]
           ELSE IF Join(attr) \in {"real", "numerator"} THEN Walk(after, v)
           ELSE IF Join(attr) = "imag" THEN Walk(after, 0)
           ELSE IF Join(attr) = "denominator" THEN Walk(after, 1)
           ELSE IF Join(attr) \in IntMethods \/ IsDunder(attr)
               THEN [err |-> "NotModelled", val |-> v]
           ELSE [err |-> "AttributeError", val |-> v]
    ELSE IF Head(rest) = "[" THEN
        LET k == Find(rest, 2, {"]"})
            item == SubSeq(rest, 2, k - 1)
        IN IF k > Len(rest) \/ Overflows(item) \/ item = <<>>
               THEN [err |-> "ValueError", val |-> v]
           ELSE [err |-> "TypeError", val |-> v]
    ELSE [err |-> "ValueError", val |-> v]

\* get_field_object: the value a field name denotes against the single
\* positional argument n, or the exception; the name starts with the
\* argument's position (automatic when empty, manual when digits) or a
\* keyword; numbering is what the fields before it used, auto is the next
\* automatic position
Lookup(name, n, numbering, auto) ==
    LET k == Find(name, 1, {".", "["})
        first == SubSeq(name, 1, k - 1)
        rest == SubSeq(name, k, Len(name))
        Out(e, v, m, a) == [err |-> e, val |-> v, numbering |-> m, auto |-> a]
    IN IF Overflows(first) THEN Out("ValueError", 0, numbering, auto)
       ELSE IF first = <<>> THEN
           (IF numbering = "manual" THEN Out("ValueError", 0, numbering, auto)
            ELSE IF auto # 0 THEN Out("IndexError", 0, "auto", auto + 1)
            ELSE Out(Walk(rest, n).err, Walk(rest, n).val, "auto", auto + 1))
       ELSE IF IsDigits(first) THEN
           (IF numbering = "auto" THEN Out("ValueError", 0, numbering, auto)
            ELSE IF StripZeros(first) # <<"0">> THEN Out("IndexError", 0, "manual", auto)
            ELSE Out(Walk(rest, n).err, Walk(rest, n).val, "manual", auto))
       ELSE Out("KeyError", 0, numbering, auto)

\* parse_internal_render_format_spec: [[fill]align][sign][z][#][0][width]
\* [grouping][.precision][type], read left to right; pos is the position
\* reached, wd and pd the digits of the width and of the precision, mark
\* the character found where the precision may start
Aligns == {"<", ">", "=", "^"}
At(spec, p) == IF p <= Len(spec) THEN spec[p] ELSE ""

ReadAlign(spec, default_align) ==
    LET fillGiven == Len(spec) >= 2 /\ spec[2] \in Aligns
        alignGiven == fillGiven \/ (Len(spec) >= 1 /\ spec[1] \in Aligns)
    IN [fillGiven |-> fillGiven, alignGiven |-> alignGiven,
        fill |-> IF fillGiven THEN spec[1] ELSE " ",
        align |-> IF fillGiven THEN spec[2]
                  ELSE IF alignGiven THEN spec[1]
                  ELSE default_align,
        pos |-> IF fillGiven THEN 3 ELSE IF alignGiven THEN 2 ELSE 1,
        sign |-> "", z |-> FALSE, alt |-> FALSE, zero |-> FALSE, wd |-> <<>>,
        comma |-> FALSE, under |-> FALSE, dot |-> FALSE, pd |-> <<>>, mark |-> ""]

ReadSign(spec, st) ==
    IF At(spec, st.pos) \in {" ", "+", "-"}
        THEN [st EXCEPT !.sign = At(spec, st.pos), !.pos = @ + 1]
        ELSE st

\* one optional character c, noted in the field flag
ReadFlag(spec, st, c, flag) ==
    IF At(spec, st.pos) = c THEN [st EXCEPT ![flag] = TRUE, !.pos = @ + 1] ELSE st

\* a '0' before the width, when no fill was given: zero padding
ReadZero(spec, st, default_align) ==
    IF ~st.fillGiven /\ At(spec, st.pos) = "0"
        THEN [st EXCEPT !.zero = TRUE, !.fill = "0", !.pos = @ + 1,
                        !.align = IF ~st.alignGiven /\ default_align = ">"
                                  THEN "=" ELSE @]
        ELSE st

ReadWidth(spec, st) ==
    LET d == LeadDigits(SubSeq(spec, st.pos, Len(spec)))
    IN [st EXCEPT !.wd = d, !.pos = @ + Len(d)]

ReadPrecision(spec, st) ==
    LET d == LeadDigits(SubSeq(spec, st.pos + 1, Len(spec)))
    IN IF At(spec, st.pos) = "."
           THEN [st EXCEPT !.dot = TRUE, !.pd = d, !.mark = ".", !.pos = @ + 1 + Len(d)]
           ELSE [st EXCEPT !.mark = At(spec, st.pos)]

\* the type, the size of the digit groups (0 for none) and the checks
ReadType(spec, st, default_type) ==
    LET L == Len(spec)
        type == IF st.pos = L THEN spec[L] ELSE default_type
        sep == IF st.under THEN "_" ELSE IF st.comma THEN "," ELSE ""
        group == IF sep = "" THEN 0
                 ELSE IF type \in {"d", "e", "f", "g", "E", "G", "%", "F"} THEN 3
                 ELSE IF type \in {"b", "o", "x", "X"} /\ sep = "_" THEN 4
                 ELSE -1
        status == IF st.wd # <<>> /\ TooMany(st.wd) THEN "ValueError"
                  ELSE IF st.wd # <<>> /\ TooWide(st.wd) THEN "NotModelled"
                  ELSE IF st.under /\ (st.comma \/ st.mark = ",") THEN "ValueError"
                  ELSE IF st.dot /\ st.pd = <<>> THEN "ValueError"
                  ELSE IF st.dot /\ TooMany(st.pd) THEN "ValueError"
                  ELSE IF st.dot /\ TooWide(st.pd) THEN "NotModelled"
                  ELSE IF st.pos < L THEN "ValueError"
                  ELSE IF group = -1 THEN "ValueError"
                  ELSE "none"
    IN [err |-> status, fill |-> st.fill, align |-> st.align,
        sign |-> st.sign, z |-> st.z, alt |-> st.alt,
        width |-> IF status = "none" /\ st.wd # <<>> THEN IntOf(st.wd) ELSE -1,
        prec |-> IF status = "none" /\ st.dot THEN IntOf(st.pd) ELSE -1,
        sep |-> sep, group |-> group, type |-> type]

ParseSpec(spec, default_type, default_align) ==
    ReadType(spec,
        ReadPrecision(spec,
            ReadFlag(spec,
                ReadFlag(spec,
                    ReadWidth(spec,
                        ReadZero(spec,
                            ReadFlag(spec,
                                ReadFlag(spec,
                                    ReadSign(spec, ReadAlign(spec, default_align)),
                                    "z", "z"),
                                "#", "alt"),
                            default_align)),
                    ",", "comma"),
                "_", "under")),
        default_type)

\* _PyUnicode_InsertThousandsGrouping: the digits, padded with zeros up to
\* min_width, in groups counted from the right; last tells the rightmost group
RECURSIVE GroupDigits(_, _, _, _, _)
GroupDigits(digits, min_width, group, sep, last) ==
    LET remaining == Len(digits)
        most == Max(Max(remaining, min_width), 1)
        l == IF group = 0 THEN most ELSE Min(group, most)
        n_zeros == Max(0, l - remaining)
        n_chars == Max(0, Min(remaining, l))
        piece == Repeat("0", n_zeros) \o SubSeq(digits, remaining - n_chars + 1, remaining)
                   \o (IF last THEN <<>> ELSE <<sep>>)
    IN IF group = 0 \/ (remaining - n_chars <= 0 /\ min_width - l <= 0) THEN piece
       ELSE GroupDigits(SubSeq(digits, 1, remaining - n_chars), min_width - l - 1,
                        group, sep, FALSE) \o piece

\* calc_number_widths and fill_number:
\* <lpadding> <sign> <prefix> <spadding> <grouped digits> <decimal> <remainder> <rpadding>
Layout(f, prefix, digits, decimal, remainder) ==
    LET sign == IF f.sign \in {"+", " "} THEN <<f.sign>> ELSE <<>>
        fixed == Len(sign) + Len(prefix) + Len(decimal) + Len(remainder)
        min_width == IF f.fill = "0" /\ f.align = "=" THEN f.width - fixed ELSE 0
        grouped == IF digits = <<>> THEN <<>>
                   ELSE GroupDigits(digits, min_width, f.group, f.sep, TRUE)
        pad == Max(0, f.width - (fixed + Len(grouped)))
        lpad == IF f.align = ">" THEN pad ELSE IF f.align = "^" THEN pad \div 2 ELSE 0
        spad == IF f.align = "=" THEN pad ELSE 0
        rpad == IF f.align = "<" THEN pad ELSE IF f.align = "^" THEN pad - pad \div 2 ELSE 0
    IN Repeat(f.fill, lpad) \o sign \o prefix \o Repeat(f.fill, spad) \o grouped
         \o decimal \o remainder \o Repeat(f.fill, rpad)

RECURSIVE ToBase(_, _)
ToBase(v, base) ==
    LET hex == Digits \o <<"a", "b", "c", "d", "e", "f">>
    IN IF v < base THEN <<hex[v + 1]>>
       ELSE ToBase(v \div base, base) \o <<hex[(v % base) + 1]>>
Upper(s) ==
    LET lower == <<"a", "b", "c", "d", "e", "f", "x">>
        upper == <<"A", "B", "C", "D", "E", "F", "X">>
    IN [i \in DOMAIN s |-> IF s[i] \in Range(lower)
                           THEN upper[IndexOf(lower, s[i])] ELSE s[i]]

\* chr(v) for the printable ASCII characters, 32 to 126; "" where the
\* character is not written here (the grave accent, 96)
Printable == <<
    " ", "!", "\"", "#", "$", "%", "&", "'", "(", ")", "*", "+", ",", "-", ".", "/",
    "0", "1", "2", "3", "4", "5", "6", "7", "8", "9", ":", ";", "<", "=", ">", "?",
    "@", "A", "B", "C", "D", "E", "F", "G", "H", "I", "J", "K", "L", "M", "N", "O",
    "P", "Q", "R", "S", "T", "U", "V", "W", "X", "Y", "Z", "[", "\\", "]", "^", "_",
    "", "a", "b", "c", "d", "e", "f", "g", "h", "i", "j", "k", "l", "m", "n", "o",
    "p", "q", "r", "s", "t", "u", "v", "w", "x", "y", "z", "{", "|", "}", "~">>

RECURSIVE Pow10(_)
Pow10(k) == IF k = 0 THEN 1 ELSE 10 * Pow10(k - 1)
\* v rounded half-even to p + 1 significant digits, and its decimal exponent
Sci(v, p) ==
    LET d == IntStr(v)
        k == Len(d)
        cut == Pow10(k - 1 - p)
        q == v \div cut
        r == v % cut
        up == IF 2 * r > cut \/ (2 * r = cut /\ q % 2 = 1) THEN q + 1 ELSE q
    IN IF v = 0 THEN [m |-> Repeat("0", p + 1), e |-> 0]
       ELSE IF k - 1 <= p THEN [m |-> d \o Repeat("0", p + 1 - k), e |-> k - 1]
       ELSE IF Len(IntStr(up)) > p + 1 THEN [m |-> SubSeq(IntStr(up), 1, p + 1), e |-> k]
       ELSE [m |-> IntStr(up), e |-> k - 1]
ExpText(e) == <<"e", "+">> \o (IF e < 10 THEN <<"0">> ELSE <<>>) \o IntStr(e)
RECURSIVE StripTrailingZeros(_)
StripTrailingZeros(s) == IF s # <<>> /\ s[Len(s)] = "0"
                         THEN StripTrailingZeros(SubSeq(s, 1, Len(s) - 1)) ELSE s

\* PyOS_double_to_string of float(v) for the types f, e and g: the digits
\* before the decimal point, whether the point is written, and what follows
ExponentText(e, p, alt) ==
    [int |-> <<e.m[1]>>, point |-> p > 0 \/ alt, rem |-> Tail(e.m) \o ExpText(e.e)]
GeneralText(g, P, alt) ==
    LET digits == IF g.e < P THEN SubSeq(g.m, g.e + 2, Len(g.m)) ELSE Tail(g.m)
        frac == IF alt THEN digits ELSE StripTrailingZeros(digits)
    IN IF g.e < P
           THEN [int |-> SubSeq(g.m, 1, g.e + 1), point |-> frac # <<>> \/ alt, rem |-> frac]
           ELSE [int |-> <<g.m[1]>>, point |-> frac # <<>> \/ alt, rem |-> frac \o ExpText(g.e)]
FloatText(v, t, p, alt) ==
    IF t \in {"f", "F"}
        THEN [int |-> IntStr(v), point |-> p > 0 \/ alt, rem |-> Repeat("0", p)]
    ELSE IF t \in {"e", "E"} THEN ExponentText(Sci(v, p), p, alt)
    ELSE GeneralText(Sci(v, (IF p = 0 THEN 1 ELSE p) - 1), IF p = 0 THEN 1 ELSE p, alt)

Formatted(v) == [ok |-> TRUE, err |-> "none", val |-> v]
FormatError(e) == [ok |-> FALSE, err |-> e, val |-> <<>>]

\* format_int_or_long_internal: the types b, c, d, o, x, X and n under the
\* parsed spec f
format_int_or_long_internal(v, f) ==
    LET t == f.type
        base == IF t = "b" THEN 2 ELSE IF t = "o" THEN 8 ELSE IF t \in {"x", "X"} THEN 16 ELSE 10
        prefix == IF f.alt /\ t \in {"b", "o", "x", "X"} THEN <<"0", IF t = "X" THEN "x" ELSE t>>
                  ELSE <<>>
    IN IF f.prec # -1 \/ f.z THEN FormatError("ValueError")
       ELSE IF t = "c" THEN
           (IF f.sign # "" \/ f.alt THEN FormatError("ValueError")
            ELSE IF v < 32 \/ v > 126 \/ v = 96 THEN FormatError("NotModelled")
            ELSE Formatted(Layout(f, <<>>, <<>>, <<>>, <<Printable[v - 31]>>)))
       ELSE Formatted(Layout(f, IF t = "X" THEN Upper(prefix) ELSE prefix,
                             IF t = "X" THEN Upper(ToBase(v, base)) ELSE ToBase(v, base),
                             <<>>, <<>>))

\* format_float_internal: the text ft of float(v) laid out under f
FloatLayout(f, ft) ==
    LET rem == IF f.type = "%" THEN ft.rem \o <<"%">> ELSE ft.rem
    IN Formatted(Layout(f, <<>>, ft.int, IF ft.point THEN <<".">> ELSE <<>>,
                        IF f.type \in {"E", "G"} THEN Upper(rem) ELSE rem))
format_float_internal(v, f) ==
    FloatLayout(f, FloatText(IF f.type = "%" THEN v * 100 ELSE v,
                             IF f.type = "%" THEN "f" ELSE f.type,
                             IF f.prec < 0 THEN 6 ELSE f.prec, f.alt))

\* int.__format__ under the parsed spec f
FormatParsedInt(v, f) ==
    IF f.err # "none" THEN FormatError(f.err)
    ELSE IF f.type \in {"b", "c", "d", "o", "x", "X", "n"} THEN format_int_or_long_internal(v, f)
    ELSE IF f.type \in {"e", "E", "f", "F", "g", "G", "%"} THEN format_float_internal(v, f)
    ELSE FormatError("ValueError")

\* int.__format__: format(v, spec) of a non-negative int
FormatInt(v, spec) == IF spec = <<>> THEN Formatted(IntStr(v))
                      ELSE FormatParsedInt(v, ParseSpec(spec, "d", ">"))

\* format_string_internal: the string t under the parsed spec f
format_string_internal(t, f) ==
    LET cut == IF f.prec >= 0 /\ Len(t) >= f.prec THEN SubSeq(t, 1, f.prec) ELSE t
        pad == Max(0, f.width - Len(cut))
        lpad == IF f.align = ">" THEN pad ELSE IF f.align = "^" THEN pad \div 2 ELSE 0
    IN IF f.err # "none" THEN FormatError(f.err)
       ELSE IF f.type # "s" \/ f.sign # "" \/ f.z \/ f.alt \/ f.align = "="
           THEN FormatError("ValueError")
       ELSE Formatted(Repeat(f.fill, lpad) \o cut \o Repeat(f.fill, pad - lpad))

\* str.__format__: format(t, spec) of the string a conversion made
FormatStr(t, spec) == IF spec = <<>> THEN Formatted(t)
                      ELSE format_string_internal(t, ParseSpec(spec, "s", "<"))

Built(v, m, a) == [ok |-> TRUE, err |-> "none", val |-> v, numbering |-> m, auto |-> a]
Failed(e) == [ok |-> FALSE, err |-> e, val |-> <<>>, numbering |-> "none", auto |-> 0]
Prepend(v, r) == IF r.ok THEN [r EXCEPT !.val = v \o @] ELSE r

\* build_string, left to right: literal text is copied, a doubled brace is
\* one brace, a single '}' or an unclosed '{' is a ValueError, and each
\* replacement field is looked up, converted, its format spec expanded (one
\* level of nesting, depth counts what is left) and the value formatted;
\* the first exception ends the call
RECURSIVE Substitute(_, _, _, _, _)

\* render_field: the value found by lk under the conversion of pf and the
\* expanded spec sp
render_field(pf, lk, sp) == IF pf.conv # <<>> THEN FormatStr(IntStr(lk.val), sp.val)
                            ELSE FormatInt(lk.val, sp.val)

\* the rendered field r, then the rest of the template
Rendered(s, n, depth, pf, sp, r) ==
    IF ~r.ok THEN Failed(r.err)
    ELSE Prepend(r.val, Substitute(SubSeq(s, pf.next, Len(s)), n, depth,
                                   sp.numbering, sp.auto))

\* the field pf with its format spec expanded to sp
Expanded(s, n, depth, pf, lk, sp) ==
    IF ~sp.ok THEN Failed(sp.err)
    ELSE Rendered(s, n, depth, pf, sp, render_field(pf, lk, sp))

\* the field pf with its name looked up as lk
Resolved(s, n, depth, pf, lk) ==
    IF lk.err # "none" THEN Failed(lk.err)
    ELSE IF pf.conv # <<>> /\ pf.conv[1] \notin {"r", "s", "a"} THEN Failed("ValueError")
    ELSE Expanded(s, n, depth, pf, lk,
                  IF pf.expand THEN Substitute(pf.spec, n, depth - 1, lk.numbering, lk.auto)
                  ELSE Built(pf.spec, lk.numbering, lk.auto))

\* output_markup: the replacement field pf that opens s
output_markup(s, n, depth, numbering, auto, pf) ==
    IF ~pf.ok THEN Failed("ValueError")
    ELSE Resolved(s, n, depth, pf, Lookup(pf.name, n, numbering, auto))

Substitute(s, n, depth, numbering, auto) ==
    IF depth <= 0 THEN Failed("ValueError")
    ELSE IF s = <<>> THEN Built(<<>>, numbering, auto)
    ELSE IF Head(s) \notin Braces
        THEN Prepend(<<Head(s)>>, Substitute(Tail(s), n, depth, numbering, auto))
    ELSE IF Len(s) = 1 THEN Failed("ValueError")
    ELSE IF s[2] = s[1]
        THEN Prepend(<<s[1]>>, Substitute(SubSeq(s, 3, Len(s)), n, depth, numbering, auto))
    ELSE IF s[1] = "}" THEN Failed("ValueError")
    ELSE output_markup(s, n, depth, numbering, auto, ParseField(s, 2))

Outcome(r) == [ok |-> r.ok, err |-> r.err, val |-> r.val]
format(s, n) == Outcome(Substitute(Chars(s), n, 2, "none", 0))

\* ------------------------------------------- networkx: components, subgraph
Neighbours(g, S) == S \cup {n \in NodeSet(g) : \E m \in S : {m, n} \in g.edges}

RECURSIVE Component(_, _)
Component(g, S) == IF Neighbours(g, S) = S THEN S ELSE Component(g, Neighbours(g, S))

\* one component per first unseen node, in the graph's node order
RECURSIVE ComponentsFrom(_, _, _)
ComponentsFrom(g, ns, seen) ==
    IF ns = <<>> THEN <<>>
    ELSE IF Head(ns) \in seen THEN ComponentsFrom(g, Tail(ns), seen)
    ELSE LET c == Component(g, {Head(ns)})
         IN <<c>> \o ComponentsFrom(g, Tail(ns), seen \cup c)

connected_components(g) == ComponentsFrom(g, g.nodes, {})

subgraph(g, ns) ==
    [nodes |-> SelectSeq(g.nodes, LAMBDA n : n \in ns),
     edges |-> {e \in g.edges : e \subseteq ns},
     attrs |-> {t \in g.attrs : t.ent \subseteq ns}]

\* ------------------------------------------------------------ file system
\* graph_from_file: the whole resource is read and the graph built from it
graph_from_file(fsys, name, ep) == build_graph(fsys[name], ep)

\* open(name, 'w'): the file is created, or truncated
open_w(fsys, name) == (name :> <<>>) @@ fsys

\* fd.write(line + '\n')
write_line(fsys, name, line) == [fsys EXCEPT ![name] = Append(@, line)]

\* leaving the with block, normally or by an exception, closes the file
with_exit(handles, name) == handles \ {name}

\* ------------------------------------------------------------------ inputs
FilesOver(alphabet) == UNION {[1..n -> alphabet] : n \in 0..MaxLines}
SplitLines == {Fact("node", <<"a">>), Fact("node", <<"b">>), Fact("node", <<"c">>),
               Fact("edge", <<"a", "b">>), Fact("edge", <<"b", "c">>),
               Fact("link", <<"a", "c">>)}
\* every short string of a letter and braces, and longer ones for each way
\* str.format reads braces: one field, two fields, escaped braces, a stray
\* brace after a field, a keyword field, an attribute field, an item field,
\* a field with a format spec, a field nested in a format spec
LongTemplates == {<<"o", "{", "}", "o">>, <<"{", "}", "{", "}">>, <<"{", "{", "}", "}">>,
                  <<"{", "}", "}">>, <<"{", "}", "{", "o", "}">>,
                  <<"{", ".", "o", "}", "{", "}">>,
                  <<"{", "[", "0", "]", "}", "{", "}">>,
                  <<"{", "{", "}", "}", "{", ":", "}">>,
                  <<"{", "{", "}", "}", "{", "0", ":", "0", "2", "}">>,
                  <<"{", ":", "{", "}", "}">>}
Templates == UNION {[1..n -> {"o", "{", "}"}] : n \in 0..MaxTemplateLen} \cup LongTemplates
TargetsArgs == {None, PyList(<<>>), PyList(<<Slot>>)} \cup {PyStr(t) : t \in Templates}
FileNames == {<<"g", ".", "l">>, <<"d", ".", "x", "/", "g">>}

IdleLocals ==
    /\ graph = EmptyGraph /\ comps = <<>> /\ idx = 0 /\ pending = <<>>
    /\ writtens = <<>> /\ subs = <<>>
\* the names clean is called with, and what normalize_filename may make of
\* them: each name is its own normal form, or the second name is another
\* spelling of the first, or it comes out empty
CleanNames == {<<"g">>, <<"h">>}
InNormalForm == [name \in CleanNames |-> name]
NormalForms == {InNormalForm,
                [InNormalForm EXCEPT ![<<"h">>] = <<"g">>],
                [InNormalForm EXCEPT ![<<"h">>] = <<>>]}
\* a file system without any file
NoFile == <<>>
IdleClean == runs = 0 /\ snaps = <<>> /\ normal = InNormalForm
IdlePlot ==
    /\ degrees = <<>> /\ coefs = <<>> /\ no_zero = FALSE /\ stacked_limits = None
    /\ stacked_colors = None /\ log = FALSE /\ outdir = {}
    /\ x = <<>> /\ labels = <<>> /\ title = <<>>

\* ------------------------------------------------------------- split_by_cc
SplitInit ==
    /\ args \in [fname : FileNames, targets : TargetsArgs, edge_predicate : EdgePredicates]
    /\ pc = "entry" /\ err = "none" /\ result = <<>>
    /\ fname = args.fname
    /\ targets = args.targets
    /\ edge_predicate = args.edge_predicate
    /\ target_edge_predicate = DefaultEdgePredicate
    /\ target = None
    /\ IdleLocals
    /\ \/ \E content \in FilesOver(SplitLines) : fs = (fname :> content)
       \/ fs = NoFile
    /\ fs0 = fs
    /\ opened = {} /\ wopened = {}
    /\ IdleClean /\ IdlePlot

Raise(e) == pc' = "raised" /\ err' = e

\* CheckTargets without the test of line 23
CheckTargetsNoSlotTest(f, t) ==
    IF ~Truthy(t)
        THEN [err |-> "none",
              targets |-> PyStr(splitext(f)[1] \o <<"_">> \o Slot \o splitext(f)[2])]
    ELSE IF t.kind # "str" THEN [err |-> "ValueError", targets |-> t]
    ELSE [err |-> "none", targets |-> t]

\* lines 18-24: the template is defaulted or validated
CheckTargets(f, t) ==
    IF ~Truthy(t)
        THEN [err |-> "none",
              targets |-> PyStr(splitext(f)[1] \o <<"_">> \o Slot \o splitext(f)[2])]
    ELSE IF t.kind # "str" THEN [err |-> "ValueError", targets |-> t]
    ELSE IF ~HasSlot(t.val) THEN [err |-> "ValueError", targets |-> t]
    ELSE [err |-> "none", targets |-> t]

SplitEntry ==
    /\ pc = "entry"
    /\ LET c == CheckTargets(fname, targets) IN
        /\ targets' = c.targets
        /\ IF c.err = "none" THEN pc' = "read" /\ err' = err ELSE Raise(c.err)
    /\ UNCHANGED <<args, result, fname, edge_predicate, target, target_edge_predicate,
                   graph, comps, idx, pending, writtens, subs>>
    /\ UNCHANGED <<fsVars, cleanVars, plotVars>>

\* lines 25-27: the source is read, the components are enumerated; the read
\* fails when the source does not exist, and may fail when it does
SplitRead ==
    /\ pc = "read"
    /\ \/ /\ fname \in DOMAIN fs
          /\ graph' = graph_from_file(fs, fname, edge_predicate)
          /\ comps' = connected_components(graph')
          /\ pc' = "loop" /\ err' = err
       \/ /\ Raise("IOError")
          /\ UNCHANGED <<graph, comps>>
    /\ UNCHANGED <<result, callVars, target, idx, pending, writtens, subs>>
    /\ UNCHANGED <<fsVars, cleanVars, plotVars>>

\* line 28 without the restriction to the component's nodes
ccWholeGraph == graph

\* the component the loop is at
cc == subgraph(graph, comps[idx + 1])

\* lines 28-30: the next component's target is named and opened
SplitOpen ==
    /\ pc = "loop" /\ idx < Len(comps)
    /\ \E f \in {format(targets.val, idx)} :
        \/ /\ ~f.ok
           /\ Raise(f.err)
           /\ UNCHANGED <<target, pending, fsVars>>
        \/ /\ f.ok
           /\ target' = PyStr(f.val)
           /\ Raise("IOError")
           /\ UNCHANGED <<pending, fsVars>>
        \/ /\ f.ok
           /\ target' = PyStr(f.val)
           /\ fs' = open_w(fs, f.val)
           /\ opened' = opened \cup {f.val}
           /\ wopened' = wopened \cup {f.val}
           /\ pending' = asp_from_graph(cc, edge_predicate)
           /\ pc' = "write" /\ err' = err
           /\ UNCHANGED fs0
    /\ UNCHANGED <<result, callVars, graph, comps, idx, writtens, subs>>
    /\ UNCHANGED <<cleanVars, plotVars>>

\* lines 31-32: one more line of the component is written, or the write fails
SplitWrite ==
    /\ pc = "write" /\ pending # <<>>
    /\ \/ /\ fs' = write_line(fs, target.val, Head(pending))
          /\ pending' = Tail(pending)
          /\ UNCHANGED <<pc, err, opened>>
       \/ /\ opened' = with_exit(opened, target.val)
          /\ Raise("IOError")
          /\ UNCHANGED <<fs, pending>>
    /\ UNCHANGED <<result, callVars, target, graph, comps, idx, writtens, subs>>
    /\ UNCHANGED <<fs0, wopened, cleanVars, plotVars>>

\* lines 30, 33: the file is closed and its name recorded
SplitClose ==
    /\ pc = "write" /\ pending = <<>>
    /\ opened' = with_exit(opened, target.val)
    /\ writtens' = Append(writtens, target.val)
    /\ subs' = Append(subs, cc)
    /\ idx' = idx + 1
    /\ pc' = "loop"
    /\ UNCHANGED <<err, result, callVars, target, graph, comps, pending>>
    /\ UNCHANGED <<fs, fs0, wopened, cleanVars, plotVars>>

\* line 34
SplitReturn ==
    /\ pc = "loop" /\ idx = Len(comps)
    /\ result' = writtens
    /\ pc' = "done"
    /\ UNCHANGED <<err, callVars, target, graph, comps, idx, pending, writtens, subs>>
    /\ UNCHANGED <<fsVars, cleanVars, plotVars>>

SplitNext == SplitEntry \/ SplitRead \/ SplitOpen \/ SplitWrite \/ SplitClose \/ SplitReturn

SpecSplit == SplitInit /\ [][SplitNext]_vars

\* ------------------------------------------------------ split_by_cc, claims
GivenTemplate == args.targets
NonEmptyStr(v) == v.kind = "str" /\ v.val # <<>>
NothingWritten == fs = fs0 /\ wopened = {} /\ opened = {}
RejectedAtEntry == /\ pc \in {"entry", "raised"}
                   /\ pc = "raised" => err = "ValueError"
                   /\ NothingWritten

\* C1: a non-empty string template without the slot is rejected with the
\* configuration error before the source is read or any file is opened.
C1_SlotlessTemplateRejected ==
    (NonEmptyStr(GivenTemplate) /\ ~HasSlot(GivenTemplate.val)) => RejectedAtEntry

C1_Witness == /\ NonEmptyStr(GivenTemplate) /\ ~HasSlot(GivenTemplate.val)
              /\ pc = "raised" /\ err = "ValueError"
              /\ fname \in DOMAIN fs0
              /\ build_graph(fs0[fname], edge_predicate).edges # {}

\* C2: a template that does not hold the slot exactly once (none, or two or
\* more), the slot being a replacement field of the template, is rejected at
\* entry, before the source is read, for every graph.
C2_NotExactlyOneSlotRejected ==
    (NonEmptyStr(GivenTemplate) /\ SlotCount(GivenTemplate.val) # 1) => RejectedAtEntry

\* the connected components of g, as the classes of mutual reachability
ComponentClasses(g) == {Component(g, {n}) : n \in NodeSet(g)}

\* C3: the subgraphs written are pairwise node-disjoint, their nodes are
\* the graph's nodes and their edges are the graph's edges.
C3_ComponentsPartition ==
    /\ \A i, j \in DOMAIN subs :
          i # j => NodeSet(subs[i]) \cap NodeSet(subs[j]) = {}
    /\ \A i \in DOMAIN subs :
          /\ NodeSet(subs[i]) \in ComponentClasses(graph)
          /\ subs[i].edges \subseteq graph.edges
    /\ pc = "done" =>
          /\ UNION {NodeSet(subs[i]) : i \in DOMAIN subs} = NodeSet(graph)
          /\ UNION {subs[i].edges : i \in DOMAIN subs} = graph.edges
          /\ Len(subs) = Len(result)

C3_Witness == /\ pc = "done" /\ Len(subs) >= 2 /\ graph.edges # {}
              /\ \E n \in NodeSet(graph) : ~Incident(graph, n)

\* C4: on success the names returned are the template with 0, 1, ... in
\* its slot, one per component, pairwise distinct, and are exactly the
\* resources opened, fully written and closed.
C4_ReturnedNames ==
    pc = "done" =>
        /\ Len(result) = Cardinality(ComponentClasses(graph))
        /\ \A i \in DOMAIN result :
              LET t == Chars(targets.val) IN
              \E k \in 1..(Len(t) - 1) :
                  /\ SubSeq(t, k, k + 1) = Slot
                  /\ Chars(result[i]) = SubSeq(t, 1, k - 1) \o IntStr(i - 1)
                                           \o SubSeq(t, k + 2, Len(t))
        /\ \A i, j \in DOMAIN result : i # j => result[i] # result[j]
        /\ Range(result) = wopened
        /\ opened = {}
        /\ \A i \in DOMAIN result :
              fs[result[i]] = asp_from_graph(subs[i], edge_predicate)

\* C8: components are written one at a time, in index order, without
\* rollback: when opening or writing component k fails the I/O error
\* reaches the caller, the files of components 0..k-1 stay fully written,
\* nothing is created for components after k, nothing is returned, and the
\* file of component k is closed; at most one output file is open at a time.
FailedAtComponent == pc = "raised" /\ err = "IOError" /\ target # None
C8_PartialFailure ==
    /\ Cardinality(opened) <= 1
    /\ FailedAtComponent =>
          /\ Len(writtens) = idx
          /\ \A i \in 1..idx :
                /\ writtens[i] \in DOMAIN fs
                /\ fs[writtens[i]] = asp_from_graph(subs[i], edge_predicate)
          /\ wopened \subseteq Range(writtens) \cup {target.val}
          /\ \A n \in DOMAIN fs : n \in DOMAIN fs0 \/ n \in Range(writtens) \/ n = target.val
          /\ result = <<>>
          /\ opened = {}

\* ------------------------------------------------------------------- clean
Omitted == [kind |-> "omitted", val |-> <<>>]
CleanLines == {Fact("node", <<"c">>),
               Fact("edge", <<"a", "b">>), Fact("edge", <<"b", "a">>),
               Fact("edge", <<"b", "c">>),
               Fact("link", <<"a", "b">>), Fact("link", <<"a", "c">>),
               SkippedLine}
CleanArgs == [fname : {<<"g">>},
              target : {None, PyStr(<<>>), PyStr(<<"g">>), PyStr(<<"h">>)},
              edge_predicate : EdgePredicates,
              target_edge_predicate : {Omitted} \cup {PyStr(<<p>>) : p \in EdgePredicates}]

\* commons.normalize_filename: the normal form of the name
normalize_filename(name) == IF name \in DOMAIN normal THEN normal[name] ELSE name

\* lines 48-49: a target that is given is normalized; a target that is
\* empty, before or after that, is the source
BindTarget(f, t) ==
    LET given == IF Truthy(t) THEN PyStr(normalize_filename(t.val)) ELSE t
    IN IF ~Truthy(given) THEN PyStr(f) ELSE given

\* line 39: the default of target_edge_predicate is the module-level
\* edge_predicate, evaluated when the function is defined
BindTargetEdgePredicate(a) ==
    IF a.target_edge_predicate = Omitted THEN DefaultEdgePredicate
    ELSE a.target_edge_predicate.val[1]

\* the target opened before the source is read
clean_body_write_first == <<"write", "read">>

\* lines 50-51 in the order they run
clean_body == <<"read", "write">>
After(step) == IF IndexOf(clean_body, step) < Len(clean_body)
               THEN clean_body[IndexOf(clean_body, step) + 1]
               ELSE "return"

\* the parameters as bound when the call is entered
CleanCall ==
    /\ pc = "entry" /\ err = "none" /\ result = <<>>
    /\ fname = args.fname
    /\ target = args.target
    /\ edge_predicate = args.edge_predicate
    /\ target_edge_predicate = BindTargetEdgePredicate(args)
    /\ targets = None
    /\ IdleLocals
    /\ opened = {}

CleanInit ==
    /\ args \in CleanArgs
    /\ CleanCall
    /\ normal \in IF args.target = PyStr(<<"h">>) THEN NormalForms ELSE {InNormalForm}
    /\ \/ \E content \in FilesOver(CleanLines) : fs = (args.fname :> content)
       \/ fs = NoFile
    /\ fs0 = fs
    /\ wopened = {}
    /\ runs = 0 /\ snaps = <<>>
    /\ IdlePlot

\* lines 47-49
CleanEntry ==
    /\ pc = "entry"
    /\ fname' = normalize_filename(fname)
    /\ target' = BindTarget(fname', target)
    /\ pc' = clean_body[1]
    /\ UNCHANGED <<args, err, result, targets, edge_predicate, target_edge_predicate,
                   graph, comps, idx, pending, writtens, subs>>
    /\ UNCHANGED <<fsVars, cleanVars, plotVars>>

\* line 50: graph_from_file
CleanRead ==
    /\ pc = "read"
    /\ \/ /\ fname \in DOMAIN fs
          /\ graph' = graph_from_file(fs, fname, edge_predicate)
          /\ pc' = After("read") /\ err' = err
       \/ /\ Raise("IOError")
          /\ UNCHANGED graph
    /\ UNCHANGED <<result, callVars, target, comps, idx, pending, writtens, subs>>
    /\ UNCHANGED <<fsVars, cleanVars, plotVars>>

\* line 51: graph_to_file opens the target
CleanOpen ==
    /\ pc = "write"
    /\ \/ /\ fs' = open_w(fs, target.val)
          /\ opened' = opened \cup {target.val}
          /\ wopened' = wopened \cup {target.val}
          /\ pending' = asp_from_graph(graph, target_edge_predicate)
          /\ pc' = "writing" /\ err' = err
          /\ UNCHANGED fs0
       \/ /\ Raise("IOError")
          /\ UNCHANGED <<pending, fsVars>>
    /\ UNCHANGED <<result, callVars, target, graph, comps, idx, writtens, subs>>
    /\ UNCHANGED <<cleanVars, plotVars>>

\* graph_to_file writes the next line, or the write fails
CleanWrite ==
    /\ pc = "writing" /\ pending # <<>>
    /\ \/ /\ fs' = write_line(fs, target.val, Head(pending))
          /\ pending' = Tail(pending)
          /\ UNCHANGED <<pc, err, opened>>
       \/ /\ opened' = with_exit(opened, target.val)
          /\ Raise("IOError")
          /\ UNCHANGED <<fs, pending>>
    /\ UNCHANGED <<result, callVars, target, graph, comps, idx, writtens, subs>>
    /\ UNCHANGED <<fs0, wopened, cleanVars, plotVars>>

\* graph_to_file closes the target
CleanClose ==
    /\ pc = "writing" /\ pending = <<>>
    /\ opened' = with_exit(opened, target.val)
    /\ pc' = After("write")
    /\ UNCHANGED <<err, result, callVars, target, graph, comps, idx, pending,
                   writtens, subs>>
    /\ UNCHANGED <<fs, fs0, wopened, cleanVars, plotVars>>

\* clean returns; the file system it leaves is recorded
CleanReturn ==
    /\ pc = "return"
    /\ pc' = "done"
    /\ runs' = runs + 1
    /\ snaps' = Append(snaps, fs)
    /\ UNCHANGED normal
    /\ UNCHANGED <<err, result, callVars, target, graph, comps, idx, pending,
                   writtens, subs>>
    /\ UNCHANGED <<fsVars, plotVars>>

\* the caller runs clean once more, with the same arguments
CleanAgain ==
    /\ pc = "done" /\ runs < MaxRuns
    /\ pc' = "entry" /\ err' = "none" /\ result' = <<>>
    /\ fname' = args.fname
    /\ target' = args.target
    /\ edge_predicate' = args.edge_predicate
    /\ target_edge_predicate' = BindTargetEdgePredicate(args)
    /\ graph' = EmptyGraph
    /\ UNCHANGED <<args, targets, comps, idx, pending, writtens, subs>>
    /\ UNCHANGED <<fsVars, cleanVars, plotVars>>

CleanNext == CleanEntry \/ CleanRead \/ CleanOpen \/ CleanWrite \/ CleanClose
             \/ CleanReturn \/ CleanAgain

SpecClean == CleanInit /\ [][CleanNext]_vars

\* ------------------------------------------------------------ clean, claims
TargetOmitted == args.target = None
Source == normalize_filename(args.fname)
InPlace == ~Truthy(args.target) \/ normalize_filename(args.target.val) \in {<<>>, Source}
OutPredicateOmitted == args.target_edge_predicate = Omitted

\* C5: with no target the resource written is the source itself; with no
\* output edge predicate the one used for writing is the one passed for reading.
C5_CleanDefaults ==
    (pc = "done" /\ runs = 1) =>
        /\ TargetOmitted => wopened = {Source}
        /\ OutPredicateOmitted =>
              fs[target.val] = asp_from_graph(graph, args.edge_predicate)

\* C6: clean run twice in place, with no output edge predicate, leaves the
\* file as the first run left it.
C6_CleanIdempotent ==
    (runs = 2 /\ InPlace /\ OutPredicateOmitted) =>
        snaps[2][Source] = snaps[1][Source]

\* the first call of clean, up to and including its return
FirstCall == runs = 0 \/ (runs = 1 /\ pc = "done")

\* C9: the source is read whole and the graph built before the target is
\* opened; in place, what is written comes from the source's original
\* content, and a failed read leaves the source as it was.
C9_ReadBeforeWrite ==
    FirstCall =>
        /\ wopened # {} => /\ Source \in DOMAIN fs0
                            /\ graph = build_graph(fs0[Source], args.edge_predicate)
        /\ (pc \in {"return", "done"} /\ InPlace) =>
              fs[Source] = asp_from_graph(
                  build_graph(fs0[Source], args.edge_predicate),
                  target_edge_predicate)
        /\ (pc = "raised" /\ graph = EmptyGraph /\ pending = <<>>) => fs = fs0

C9_Witness == /\ FirstCall /\ pc = "done" /\ InPlace
              /\ graph.edges # {} /\ fs[Source] # fs0[Source]
              /\ fs[Source] = asp_from_graph(graph, target_edge_predicate)

\* an attribute whose fact holds the same argument twice
DuplicateArgument(t) == Cardinality(Range(AttrFact(t).args)) < Len(AttrFact(t).args)
\* no attribute repeats an argument, and no entity holds an attribute twice
NoDuplicateArgumentAttributes(g) ==
    /\ \A t \in g.attrs : ~DuplicateArgument(t)
    /\ \A t, u \in g.attrs :
          (t.kind = u.kind /\ t.ent = u.ent /\ t.name = u.name) => t = u

EdgeLines(lines, ep, e) ==
    {i \in DOMAIN lines : /\ lines[i].pred = ep /\ Len(lines[i].args) = 2
                          /\ {lines[i].args[1], lines[i].args[2]} = e}
Flip(line) == Fact(line.pred, <<line.args[2], line.args[1]>>)

\* C7: the file clean wrote holds the serialization of the graph under the
\* output edge predicate, and, the graph holding no duplicate-argument
\* attribute, building a graph from that file with the same predicate
\* gives the same nodes, edges and attributes; each edge is one line of the
\* file, never both (a,b) and (b,a), and the line with its endpoints
\* swapped builds the same edge.
C7_RoundTrip ==
    (pc = "done" /\ NoDuplicateArgumentAttributes(graph)) =>
        /\ fs[target.val] = asp_from_graph(graph, target_edge_predicate)
        /\ NodeSet(build_graph(fs[target.val], target_edge_predicate)) = NodeSet(graph)
        /\ build_graph(fs[target.val], target_edge_predicate).edges = graph.edges
        /\ build_graph(fs[target.val], target_edge_predicate).attrs = graph.attrs
        /\ \A e \in graph.edges :
              /\ Cardinality(EdgeLines(fs[target.val], target_edge_predicate, e)) = 1
              /\ \A i \in EdgeLines(fs[target.val], target_edge_predicate, e) :
                    build_graph(<<Flip(fs[target.val][i])>>, target_edge_predicate).edges = {e}

\* ---------------------------------------------- make_graphics_coef_stacked
PlotNodes == 1..NumPlotNodes
DegreeSamples == {1, 4, 7, 10, 30, 31}
CoefSamples == {0, 1}
DefaultLimits == <<4, 10, 30>>
DefaultColors == <<"mediumseagreen", "greenyellow", "gold", "orangered">>
PlotArgs == [no_zero : BOOLEAN, log : BOOLEAN,
             stacked_limits : {None, PyList(<<2>>)},
             stacked_colors : {None, PyList(<<"red", "green">>)}]

StackedName(k) == IF k = 0 THEN <<"coef_distrib_stacked", ".png">>
                  ELSE <<"coef_distrib_stacked", "_">> \o IntStr(k) \o <<".png">>

\* lines 189-193: the first of coef_distrib_stacked.png, _1.png, _2.png, ...
\* that does not exist
RECURSIVE FreeName(_, _)
FreeName(dir, k) == IF StackedName(k) \in dir THEN FreeName(dir, k + 1) ELSE StackedName(k)

PlotInit ==
    /\ args \in PlotArgs
    /\ degrees \in [PlotNodes -> DegreeSamples]
    /\ coefs \in [PlotNodes -> CoefSamples]
    /\ no_zero = args.no_zero
    /\ log = args.log
    /\ stacked_limits = args.stacked_limits
    /\ stacked_colors = args.stacked_colors
    /\ outdir \in SUBSET {StackedName(k) : k \in 0..MaxExisting}
    /\ x = <<>> /\ labels = <<>> /\ title = <<>>
    /\ pc = "entry" /\ err = "none" /\ result = <<>>
    /\ fname = <<>> /\ targets = None /\ target = None
    /\ edge_predicate = DefaultEdgePredicate
    /\ target_edge_predicate = DefaultEdgePredicate
    /\ IdleLocals
    /\ fs = <<>> /\ fs0 = <<>> /\ opened = {} /\ wopened = {}
    /\ IdleClean

\* lines 122-133
PlotEntry ==
    /\ pc = "entry"
    /\ stacked_limits' = IF stacked_limits = None THEN PyList(DefaultLimits)
                          ELSE stacked_limits
    /\ stacked_colors' = IF stacked_colors = None THEN PyList(DefaultColors)
                          ELSE stacked_colors
    /\ IF Len(stacked_colors'.val) = Len(stacked_limits'.val) + 1
          THEN /\ pc' = "loop" /\ err' = err
               /\ title' = <<"Local clustering coefficient distribution with degree">>
          ELSE /\ Raise("AssertionError")
               /\ title' = title
    /\ UNCHANGED <<result, callVars, target, graph, comps, idx, pending, writtens, subs>>
    /\ UNCHANGED <<degrees, coefs, no_zero, log, outdir, x, labels>>
    /\ UNCHANGED <<fsVars, cleanVars>>

\* lines 139-146: whether degree v is in category i (from 0) of the limits
InCategory(limits, i, v) ==
    IF i = 0 THEN v <= limits[1]
    ELSE IF i = Len(limits) THEN v > limits[i]
    ELSE limits[i] <= v /\ v <= limits[i + 1]

\* lines 148-152: the coefficients of the nodes of category i
CategoryValues(i) ==
    LET selected == SelectSeq([k \in PlotNodes |-> k],
                              LAMBDA k : InCategory(stacked_limits.val, i, degrees[k]))
        values == [j \in DOMAIN selected |-> coefs[selected[j]]]
    IN IF no_zero THEN SelectSeq(values, LAMBDA v : v # 0) ELSE values

\* lines 136-155: one turn of the loop
PlotCategory ==
    /\ pc = "loop" /\ idx < Len(stacked_limits.val) + 1
    /\ x' = Append(x, CategoryValues(idx))
    /\ idx' = idx + 1
    /\ UNCHANGED <<pc, err, result, callVars, target, graph, comps, pending, writtens, subs>>
    /\ UNCHANGED <<degrees, coefs, no_zero, stacked_limits, stacked_colors, log, outdir,
                   labels, title>>
    /\ UNCHANGED <<fsVars, cleanVars>>

\* lines 156-199: title, legend, and the figure saved under a free name
PlotSave ==
    /\ pc = "loop" /\ idx = Len(stacked_limits.val) + 1
    /\ title' = title \o (IF no_zero THEN <<" - without zero">> ELSE <<>>)
                       \o (IF log THEN <<" - log scale">> ELSE <<>>)
    /\ labels' = [i \in DOMAIN stacked_limits.val |->
                      [text |-> "degree <=", limit |-> stacked_limits.val[i]]]
                  \o <<[text |-> "degree >",
                        limit |-> stacked_limits.val[Len(stacked_limits.val)]]>>
    /\ outdir' = outdir \cup {FreeName(outdir, 0)}
    /\ result' = FreeName(outdir, 0)
    /\ pc' = "done"
    /\ UNCHANGED <<err, callVars, target, graph, comps, idx, pending, writtens, subs>>
    /\ UNCHANGED <<degrees, coefs, no_zero, stacked_limits, stacked_colors, log, x>>
    /\ UNCHANGED <<fsVars, cleanVars>>

PlotNext == PlotEntry \/ PlotCategory \/ PlotSave

SpecStacked == PlotInit /\ [][PlotNext]_vars

\* the coefficients of the nodes whose degree d has lo < d <= hi
Documented(lo, hi) ==
    LET selected == SelectSeq([k \in PlotNodes |-> k],
                              LAMBDA k : lo < degrees[k] /\ degrees[k] <= hi)
    IN [j \in DOMAIN selected |-> coefs[selected[j]]]

RECURSIVE TotalLen(_)
TotalLen(ss) == IF ss = <<>> THEN 0 ELSE Len(Head(ss)) + TotalLen(Tail(ss))

\* C10: with the default limits and no_zero false the four series are the
\* nodes of degree <= 4, 4 < degree <= 10, 10 < degree <= 30 and degree > 30,
\* each node in exactly one, so that their sizes sum to the number of nodes.
C10_CategoriesPartition ==
    (pc = "done" /\ args.stacked_limits = None /\ ~no_zero) =>
        /\ x = <<Documented(-1, 4), Documented(4, 10), Documented(10, 30),
                 Documented(30, 1000)>>
        /\ TotalLen(x) = NumPlotNodes

====
